---- MODULE Spec2Model ----
(***************************************************************************)
(* The trade lifecycle engine of the iron-condor paper-trading bot:        *)
(*   - backtester.py: run_backtest over a feed of price rows;              *)
(*   - main.py: run_trading_bot, the live polling driver with its          *)
(*     persisted state file, trade log and notifications.                  *)
(* Times are minutes since midnight; prices are whole price units.         *)
(***************************************************************************)
EXTENDS Integers, Sequences, FiniteSets, TLC

(***************************************************************************)
(* Bounds of the model.                                                    *)
(***************************************************************************)
\* Largest last-traded price of a leg in a backtest feed row.
MaxPrice == 10

(***************************************************************************)
(* Quotes and feed rows.                                                   *)
(***************************************************************************)
\* The four leg price columns of a feed row / keys of live_data.
LtpKeys == {"sell_ce_ltp", "buy_ce_ltp", "sell_pe_ltp", "buy_pe_ltp"}

\* A row of leg prices.
LegRow(sc, bc, sp, bp) ==
    [sell_ce_ltp |-> sc, buy_ce_ltp |-> bc, sell_pe_ltp |-> sp, buy_pe_ltp |-> bp]

\* Rows in which at most one leg trades away from zero, up to max.
OneLegRows(max) ==
    {LegRow(0, 0, 0, 0)} \cup
    {[LegRow(0, 0, 0, 0) EXCEPT ![k] = p] : k \in LtpKeys, p \in 1..max}

\* Rows around the entry 100/40/90/35 (net credit 115, target 46, stop 92):
\* the entry row itself and rows that move the short call so that the
\* mark-to-market P&L is 50, 46, 45, 10, -91, -92 and -95.
ScenarioRows ==
    {LegRow(sc, 40, 90, 35) : sc \in {100, 50, 54, 55, 90, 191, 192, 195}}

\* The rows a backtest feed is built from.
FeedRows == OneLegRows(MaxPrice) \cup ScenarioRows

(***************************************************************************)
(* backtester.py                                                           *)
(***************************************************************************)
\* PROFIT_TARGET_PCT = 0.40 and STOP_LOSS_PCT = 0.80, in hundredths.
PROFIT_TARGET_PCT == 40
STOP_LOSS_PCT == 80
\* Thresholds are kept in hundredths of a price unit, so that
\* net_credit * 0.40 is the integer net_credit * 40.
Hundredths == 100

\* entry_time = dt_time(9, 45) and the end-of-day cutoff dt_time(15, 10).
entry_time == 585
EOD_CUTOFF == 910

\* Timestamps a feed row can carry: the first row of the day, the minutes
\* around the entry time and around the end-of-day cutoff, and the last row.
FeedTimes == {555, entry_time - 1, entry_time, entry_time + 1,
              EOD_CUTOFF - 1, EOD_CUTOFF, 930}

VARIABLES
    program,            \* which script runs: "backtester" or "main"
    bt_pc,              \* run_backtest: "start", "loop", "after_loop", "returned"
    bt_clock,           \* timestamp of the last feed row consumed
    bt_row,             \* run_backtest loop variable row (the row last consumed)
    bt_trade_active,    \* run_backtest local trade_active
    bt_position_book,   \* run_backtest local position_book
    bt_net_credit,      \* run_backtest local net_credit
    bt_pnl,             \* run_backtest local pnl
    bt_profit_target,   \* run_backtest local profit_target (hundredths)
    bt_stop_loss,       \* run_backtest local stop_loss (hundredths)
    bt_trade_log        \* run_backtest local trade_log (sequence of rows)

VARIABLES
    env,                \* main.py: the environment the configuration is read from
    pc,                 \* run_trading_bot: the statement the thread is at
    clock,              \* the wall clock, as last read
    restarts,           \* process restarts so far
    bot_state,          \* main.py global bot_state
    trade_log,          \* main.py global trade_log (in memory)
    state_file,         \* the file STATE_FILE on disk
    log_file,           \* the file LOG_FILE_NAME on disk
    sent,               \* notifications handed to send_telegram_message
    state,              \* run_trading_bot local state (the loaded JSON)
    current_time,       \* run_trading_bot local current_time
    live_data,          \* run_trading_bot local live_data
    pnl_per_lot,        \* run_trading_bot local pnl_per_lot
    exit_reason         \* run_trading_bot local exit_reason

VARIABLES
    status_pc,          \* status_page: "idle", "reading" or "responded"
    status_response,    \* status_page: the JSON object being built / returned
    morning_pc,         \* morning_status_update: "idle" or "send"
    morning_message     \* morning_status_update local message

threadVars == <<env, pc, clock, restarts, bot_state, trade_log, state_file, log_file,
                sent, state, current_time, live_data, pnl_per_lot, exit_reason>>

readerVars == <<status_pc, status_response, morning_pc, morning_message>>

liveVars == <<threadVars, readerVars>>

btVars == <<bt_pc, bt_clock, bt_row, bt_trade_active, bt_position_book, bt_net_credit,
            bt_pnl, bt_profit_target, bt_stop_loss, bt_trade_log>>

\* The empty dict {}.
EmptyBook == <<>>

\* log_trade(log_df, timestamp, event, details): the log with one row appended.
BtLogTrade(log_df, timestamp, event, details) ==
    Append(log_df, [timestamp |-> timestamp, event |-> event, details |-> details])

\* position_book = {"sell_ce": row['sell_ce_ltp'], ...}
BtBookOf(row) ==
    [sell_ce |-> row.sell_ce_ltp, buy_ce |-> row.buy_ce_ltp,
     sell_pe |-> row.sell_pe_ltp, buy_pe |-> row.buy_pe_ltp]

\* net_credit = (sell_ce - buy_ce) + (sell_pe - buy_pe)
NetCredit(book) ==
    (book.sell_ce - book.buy_ce) + (book.sell_pe - book.buy_pe)

\* Mark-to-market P&L of a row against the position book (unscaled).
BtMarkToMarket(book, row) ==
    LET mtm_sell_ce == book.sell_ce - row.sell_ce_ltp
        mtm_buy_ce  == row.buy_ce_ltp - book.buy_ce
        mtm_sell_pe == book.sell_pe - row.sell_pe_ltp
        mtm_buy_pe  == row.buy_pe_ltp - book.buy_pe
    IN  mtm_sell_ce + mtm_buy_ce + mtm_sell_pe + mtm_buy_pe

\* BtExitReason with the profit target compared strictly.
BtExitReason_Strict(pnl, profit_target, stop_loss, t) ==
    IF pnl * Hundredths > profit_target THEN "Profit Target Hit"
    ELSE IF pnl * Hundredths <= -stop_loss THEN "Stop-Loss Hit"
    ELSE IF t >= EOD_CUTOFF THEN "End of Day Exit"
    ELSE "None"

\* BtExitReason with the stop-loss amount compared without its sign.
BtExitReason_StopUnsigned(pnl, profit_target, stop_loss, t) ==
    IF pnl * Hundredths >= profit_target THEN "Profit Target Hit"
    ELSE IF pnl * Hundredths <= stop_loss THEN "Stop-Loss Hit"
    ELSE IF t >= EOD_CUTOFF THEN "End of Day Exit"
    ELSE "None"

\* The if / elif / elif chain that picks exit_reason; "None" when no exit.
BtExitReason(pnl, profit_target, stop_loss, t) ==
    IF pnl * Hundredths >= profit_target THEN "Profit Target Hit"
    ELSE IF pnl * Hundredths <= -stop_loss THEN "Stop-Loss Hit"
    ELSE IF t >= EOD_CUTOFF THEN "End of Day Exit"
    ELSE "None"

\* BtEntryBranch without the `not trade_active` test.
BtEntryBranch_Rearm(active, t) ==
    t >= entry_time

\* Whether the loop body takes the entry branch on this row.
BtEntryBranch(active, t) ==
    ~active /\ t >= entry_time

\* run_backtest(None): the feed failed to generate, an empty log is returned.
BacktestNoFeed ==
    /\ program = "backtester"
    /\ bt_pc = "start"
    /\ bt_pc' = "returned"
    /\ UNCHANGED <<bt_clock, bt_row, bt_trade_active, bt_position_book,
                   bt_net_credit, bt_pnl, bt_profit_target, bt_stop_loss,
                   bt_trade_log>>
    /\ UNCHANGED <<program, liveVars>>

\* run_backtest with a feed: locals initialised, the loop begins.
BacktestBegin ==
    /\ program = "backtester"
    /\ bt_pc = "start"
    /\ bt_pc' = "loop"
    /\ UNCHANGED <<bt_clock, bt_row, bt_trade_active, bt_position_book,
                   bt_net_credit, bt_pnl, bt_profit_target, bt_stop_loss,
                   bt_trade_log>>
    /\ UNCHANGED <<program, liveVars>>

\* One iteration of `for timestamp, row in mock_data_feed.iterrows()`.
BacktestRow ==
    /\ program = "backtester"
    /\ bt_pc = "loop"
    /\ \E timestamp \in FeedTimes, row \in FeedRows :
        /\ timestamp > bt_clock
        /\ bt_clock' = timestamp
        /\ bt_row' = row
        /\ LET enter    == BtEntryBranch(bt_trade_active, timestamp)
               book     == IF enter THEN BtBookOf(row) ELSE bt_position_book
               credit   == IF enter THEN NetCredit(book) ELSE bt_net_credit
               rejected == enter /\ credit <= 0
               active   == bt_trade_active \/ enter
               target   == IF enter /\ ~rejected
                           THEN credit * PROFIT_TARGET_PCT ELSE bt_profit_target
               stop     == IF enter /\ ~rejected
                           THEN credit * STOP_LOSS_PCT ELSE bt_stop_loss
               log1     == IF rejected
                           THEN BtLogTrade(bt_trade_log, timestamp, "TRADE REJECTED",
                                           [net_credit |-> credit])
                           ELSE IF enter
                           THEN BtLogTrade(
                                   BtLogTrade(bt_trade_log, timestamp, "ENTRY",
                                       [net_credit |-> credit, positions |-> book]),
                                   timestamp, "TARGETS",
                                   [profit_target |-> target, stop_loss |-> stop])
                           ELSE bt_trade_log
               monitor  == active /\ ~rejected
               pnl      == IF monitor THEN BtMarkToMarket(book, row) ELSE bt_pnl
               reason   == IF monitor
                           THEN BtExitReason(pnl, target, stop, timestamp)
                           ELSE "None"
           IN  /\ bt_trade_active' = active
               /\ bt_position_book' = book
               /\ bt_net_credit' = credit
               /\ bt_profit_target' = target
               /\ bt_stop_loss' = stop
               /\ bt_pnl' = pnl
               /\ bt_trade_log' =
                     IF reason # "None"
                     THEN BtLogTrade(log1, timestamp, "EXIT",
                                     [exit_reason |-> reason, pnl |-> pnl])
                     ELSE log1
               /\ bt_pc' = IF rejected \/ reason # "None" THEN "after_loop" ELSE "loop"
    /\ UNCHANGED <<program, liveVars>>

\* The feed is exhausted: the for loop ends without a break.
BacktestFeedEnd ==
    /\ program = "backtester"
    /\ bt_pc = "loop"
    /\ bt_pc' = "after_loop"
    /\ UNCHANGED <<bt_clock, bt_row, bt_trade_active, bt_position_book,
                   bt_net_credit, bt_pnl, bt_profit_target, bt_stop_loss,
                   bt_trade_log>>
    /\ UNCHANGED <<program, liveVars>>

\* After the loop: a NO TRADE row unless an ENTRY row was logged; return.
BacktestFinish ==
    /\ program = "backtester"
    /\ bt_pc = "after_loop"
    /\ bt_trade_log' =
          IF \E i \in 1..Len(bt_trade_log) : bt_trade_log[i].event = "ENTRY"
          THEN bt_trade_log
          ELSE BtLogTrade(bt_trade_log, "now", "NO TRADE", "Entry conditions were not met.")
    /\ bt_pc' = "returned"
    /\ UNCHANGED <<bt_clock, bt_row, bt_trade_active, bt_position_book,
                   bt_net_credit, bt_pnl, bt_profit_target, bt_stop_loss>>
    /\ UNCHANGED <<program, liveVars>>

\* Before the loop no row is bound.
NoRow == [k \in LtpKeys |-> -1]

BtInit ==
    /\ bt_pc = "start"
    /\ bt_clock = 0
    /\ bt_row = NoRow
    /\ bt_trade_active = FALSE
    /\ bt_position_book = EmptyBook
    /\ bt_net_credit = 0
    /\ bt_pnl = 0
    /\ bt_profit_target = 0
    /\ bt_stop_loss = 0
    /\ bt_trade_log = <<>>


(***************************************************************************)
(* main.py: configuration                                                  *)
(***************************************************************************)
\* Largest last-traded price of a leg in a live quote.
MaxLtp == 1
\* Largest spot price in a live quote.
MaxSpot == 3
\* Largest number of process restarts in one behaviour.
MaxRestarts == 1

\* A missing field of live_data (None); every price is >= 0.
None == -1

\* MARKET_OPEN_TIME 09:25, MARKET_CLOSE_TIME 15:30, ENTRY_TIME_START 09:30.
MARKET_OPEN_TIME == 565
MARKET_CLOSE_TIME == 930
ENTRY_TIME_START == 570
\* LOT_SIZE, default 50.
LOT_SIZE == 50

\* Readings of datetime.now().time(): before the open, at the open (before
\* the entry window), at the start of the entry window, at the close and
\* after the close.
ClockReadings == {MARKET_OPEN_TIME - 1, MARKET_OPEN_TIME, ENTRY_TIME_START,
                  MARKET_CLOSE_TIME, MARKET_CLOSE_TIME + 1}

\* The environment with every variable unset: the defaults of main.py.
DefaultEnv ==
    [MIN_SPOT |-> 0, MAX_SPOT |-> 0, STOP_LOSS_MIN |-> 0, STOP_LOSS_MAX |-> 0,
     PROFIT_TARGET_PER_LOT |-> 0]

\* The environments the model runs under: the defaults, and an entry band
\* [0 or 1, 2] with the stop-loss band [1, MaxSpot] and a profit target of
\* nothing or of one price unit on one lot.
Environments ==
    {DefaultEnv} \cup
    [MIN_SPOT : {0, 1}, MAX_SPOT : {2},
     STOP_LOSS_MIN : {1}, STOP_LOSS_MAX : {MaxSpot},
     PROFIT_TARGET_PER_LOT : {0, LOT_SIZE}]

\* ENTRY_CONDITIONS, STOP_LOSS_RANGE, PROFIT_TARGET_PER_LOT as read from env.
ENTRY_CONDITIONS == [MIN_SPOT |-> env.MIN_SPOT, MAX_SPOT |-> env.MAX_SPOT]
STOP_LOSS_RANGE == [MIN |-> env.STOP_LOSS_MIN, MAX |-> env.STOP_LOSS_MAX]
PROFIT_TARGET_PER_LOT == env.PROFIT_TARGET_PER_LOT

(***************************************************************************)
(* main.py: quotes, the position book, the state file                      *)
(***************************************************************************)
\* The keys of live_data whose value the driver tests for None.
QuoteKeys == {"spot"} \cup LtpKeys

\* live_data as fetch_live_data builds it: spot and the four leg prices.
Quote(spot, legs) ==
    [spot |-> spot, sell_ce_ltp |-> legs.sell_ce_ltp, buy_ce_ltp |-> legs.buy_ce_ltp,
     sell_pe_ltp |-> legs.sell_pe_ltp, buy_pe_ltp |-> legs.buy_pe_ltp]

\* Quotes with every field present.
FullQuotes == {Quote(s, r) : s \in 0..MaxSpot, r \in OneLegRows(MaxLtp)}

\* The sets of fields a fetch leaves None: any one field (the index
\* response of unexpected shape, a strike absent from the chain), the four
\* leg prices (an empty option chain) or every field (an API error).
MissingFields == {{k} : k \in QuoteKeys} \cup {LtpKeys, QuoteKeys}

\* The quotes a fetch can return when the market trades at one of `full`:
\* that quote, or that quote with fields left None.
WithMissing(full) ==
    full \cup
    {[k \in QuoteKeys |-> IF k \in missing THEN None ELSE q[k]] :
        q \in full, missing \in MissingFields}

\* Quotes fetch_live_data can return.
Quotes == WithMissing(FullQuotes)

\* A narrower market, for the behaviours with restarts: the spot at 0 or 1
\* and only the short call trading away from zero.
RestartQuotes ==
    WithMissing({Quote(s, LegRow(p, 0, 0, 0)) : s \in {0, 1}, p \in {0, 1}})

\* The keys of the dictionary fetch_live_data returns: the tested fields and
\* 'timestamp', the datetime.now() read when the fetch begins.
LiveDataKeys == QuoteKeys \cup {"timestamp"}

\* The dictionary returned by a fetch that began at reading ts and found
\* the market at quote q.
Fetched(q, ts) == [k \in LiveDataKeys |-> IF k = "timestamp" THEN ts ELSE q[k]]

\* The readings datetime.now() can give at the first statement of
\* fetch_live_data in a cycle whose loop read t. No call that waits lies
\* between the two readings, so it is the same minute, or the next when the
\* minute rolls in between.
FetchReadings(t) == {t, t + 1}

\* live_data before the first fetch of a cycle.
NoQuote == [k \in LiveDataKeys |-> None]

\* AnyNone testing the spot alone.
AnyNone_SpotOnly(data) == data.spot = None

\* any(v is None for v in live_data.values())
AnyNone(data) == \E k \in DOMAIN data : data[k] = None

\* The keys of the live position book.
BookKeys == {"SELL_CE", "BUY_CE", "SELL_PE", "BUY_PE"}

\* BookOf with the two call legs exchanged.
BookOf_Swapped(data) ==
    [SELL_CE |-> data.buy_ce_ltp, BUY_CE |-> data.sell_ce_ltp,
     SELL_PE |-> data.sell_pe_ltp, BUY_PE |-> data.buy_pe_ltp]

\* position_book = {'SELL_CE': live_data['sell_ce_ltp'], ...}
BookOf(data) ==
    [SELL_CE |-> data.sell_ce_ltp, BUY_CE |-> data.buy_ce_ltp,
     SELL_PE |-> data.sell_pe_ltp, BUY_PE |-> data.buy_pe_ltp]

\* A file on disk: absent, or present with text that parses as JSON to obj
\* or does not parse (empty, cut short).
NoFile == [exists |-> FALSE, parses |-> FALSE, obj |-> <<>>]
Unreadable == [exists |-> TRUE, parses |-> FALSE, obj |-> <<>>]

\* json.dump(obj, f): the file holds the text of obj.
JsonDump(obj) == [exists |-> TRUE, parses |-> TRUE, obj |-> obj]

\* json.load(f): the object the text encodes (the caller checks it parses).
JsonLoad(file) == file.obj

\* The object written at entry: {'trade_active': True, 'position_book': book}.
StateObject(active, book) ==
    [trade_active |-> active, position_book |-> book]

\* dict.get(key, default)
Get(obj, key, default) == IF key \in DOMAIN obj THEN obj[key] ELSE default

\* Position books with one leg missing.
PartialBooks ==
    {[k \in BookKeys \ {m} |-> 0] : m \in BookKeys}

\* A full position book, as an earlier run may have left it on disk.
SomeBook == BookOf(Quote(0, LegRow(1, 0, 0, 0)))

\* State files found at the first start: none, an unreadable one, an empty
\* object, an active flag with an empty book, an inactive flag with a full
\* book, and an active flag with a partial or a full book.
InitialStateFiles ==
    {NoFile, Unreadable, JsonDump(<<>>),
     JsonDump(StateObject(TRUE, EmptyBook)),
     JsonDump(StateObject(FALSE, SomeBook)),
     JsonDump(StateObject(TRUE, SomeBook))}
    \cup {JsonDump(StateObject(TRUE, b)) : b \in PartialBooks}

\* StateInvalid with the second `not` dropped.
StateInvalid_NonEmptyBook(bs) == ~bs.trade_active \/ bs.position_book # EmptyBook

\* `not bot_state['trade_active'] or not bot_state['position_book']`
StateInvalid(bs) == ~bs.trade_active \/ bs.position_book = EmptyBook

\* MarketOpen with the close excluded.
MarketOpen_CloseExcluded(t) == MARKET_OPEN_TIME <= t /\ t < MARKET_CLOSE_TIME

\* MarketOpen with the close one minute later.
MarketOpen_CloseLate(t) == MARKET_OPEN_TIME <= t /\ t <= MARKET_CLOSE_TIME + 1

\* MARKET_OPEN_TIME <= current_time <= MARKET_CLOSE_TIME
MarketOpen(t) == MARKET_OPEN_TIME <= t /\ t <= MARKET_CLOSE_TIME

\* SpotInEntryRange with the bounds excluded.
SpotInEntryRange_Strict(spot) ==
    ENTRY_CONDITIONS.MIN_SPOT < spot /\ spot < ENTRY_CONDITIONS.MAX_SPOT

\* ENTRY_CONDITIONS['MIN_SPOT'] <= spot <= ENTRY_CONDITIONS['MAX_SPOT']
SpotInEntryRange(spot) ==
    ENTRY_CONDITIONS.MIN_SPOT <= spot /\ spot <= ENTRY_CONDITIONS.MAX_SPOT

\* Whether the P&L expression raises KeyError: a leg missing from the book.
BookLacksLeg(book) == \E k \in BookKeys : k \notin DOMAIN book

\* MarkToMarket without the lot-size multiplier.
MarkToMarket_Unscaled(entry_book, data) ==
    (entry_book.SELL_CE - data.sell_ce_ltp) +
    (data.buy_ce_ltp - entry_book.BUY_CE) +
    (entry_book.SELL_PE - data.sell_pe_ltp) +
    (data.buy_pe_ltp - entry_book.BUY_PE)

\* pnl_per_lot = (sum of the four leg contributions) * LOT_SIZE
MarkToMarket(entry_book, data) ==
    ( (entry_book.SELL_CE - data.sell_ce_ltp) +
      (data.buy_ce_ltp - entry_book.BUY_CE) +
      (entry_book.SELL_PE - data.sell_pe_ltp) +
      (data.buy_pe_ltp - entry_book.BUY_PE) ) * LOT_SIZE

\* ExitReason with the stop-loss band tested before the profit target.
ExitReason_StopFirst(pnl, spot, t) ==
    IF ~(STOP_LOSS_RANGE.MIN <= spot /\ spot <= STOP_LOSS_RANGE.MAX)
    THEN "STOP_LOSS"
    ELSE IF pnl >= PROFIT_TARGET_PER_LOT THEN "PROFIT_TARGET"
    ELSE IF t >= MARKET_CLOSE_TIME THEN "END_OF_DAY"
    ELSE "None"

\* The if / elif / elif chain that picks exit_reason; "None" when no exit.
ExitReason(pnl, spot, t) ==
    IF pnl >= PROFIT_TARGET_PER_LOT THEN "PROFIT_TARGET"
    ELSE IF ~(STOP_LOSS_RANGE.MIN <= spot /\ spot <= STOP_LOSS_RANGE.MAX)
         THEN "STOP_LOSS"
    ELSE IF t >= MARKET_CLOSE_TIME THEN "END_OF_DAY"
    ELSE "None"

\* log_trade(timestamp, action, instrument, price, pnl, commentary)
LogTrade(log, timestamp, action, price, pnl, commentary) ==
    Append(log, [timestamp |-> timestamp, action |-> action, price |-> price,
                 pnl |-> pnl, commentary |-> commentary])

\* send_telegram_message(message): the message is handed to the notifier.
SendTelegram(message) == sent' = Append(sent, message)

\* bot_state[key] = value
SetBotState(key, value) == bot_state' = [bot_state EXCEPT ![key] = value]

\* RecordPnl that also re-marks the position book to the current quote.
RecordPnl_Rebook(pnl) ==
    bot_state' = [bot_state EXCEPT !.pnl_per_lot = pnl,
                                   !.status_message = "Position active.",
                                   !.position_book = BookOf(live_data)]

\* bot_state["pnl_per_lot"] = pnl_per_lot; bot_state["status_message"] = ...
RecordPnl(pnl) ==
    bot_state' = [bot_state EXCEPT !.pnl_per_lot = pnl,
                                   !.status_message = "Position active."]

\* The module-level bot_state.
InitialBotState ==
    [trade_active |-> FALSE, position_book |-> EmptyBook, pnl_per_lot |-> 0,
     status_message |-> "Initializing..."]

\* A notification: its kind, and for an exit its reason and final P&L.
Message(kind, reason, pnl) == [kind |-> kind, reason |-> reason, pnl |-> pnl]

\* The message the module start-up sends before the bot thread is started.
DeploymentMessage == Message("DEPLOYMENT", "None", 0)

\* No status request has been served yet.
NoResponse ==
    [status |-> "", trade_active |-> FALSE, pnl_per_lot |-> 0,
     position_book |-> EmptyBook]

\* morning_status_update has built no message.
NoMessage == Message("None", "None", 0)

\* Largest number of mornings on which the scheduler's job runs in one
\* behaviour.
MaxMornings == 2

\* trade_log.to_csv(LOG_FILE_NAME, index=False): the file holds these rows.
ToCsv(log) == [exists |-> TRUE, rows |-> log]
NoLogFile == [exists |-> FALSE, rows |-> <<>>]

\* os.path.exists(STATE_FILE) followed by os.remove(STATE_FILE).
RemoveIfExists(file) == IF file.exists THEN NoFile ELSE file

\* The locals of one loop iteration are dead once the iteration ends; they
\* are all assigned again before they are read.
ClearLocals ==
    /\ current_time' = 0
    /\ live_data' = NoQuote
    /\ pnl_per_lot' = 0
    /\ exit_reason' = "None"

\* time.sleep(POLLING_INTERVAL_SECONDS), then the next iteration.
SleepAndContinue ==
    /\ pc' = "loop_top"
    /\ ClearLocals

otherVars == <<program, btVars, readerVars>>

(***************************************************************************)
(* main.py: run_trading_bot, initialisation and state restoration          *)
(***************************************************************************)
\* n = NSELive() succeeds.
StartBot ==
    /\ program = "main" /\ pc = "start"
    /\ pc' = "check_file"
    /\ UNCHANGED <<env, clock, restarts, bot_state, trade_log, state_file, log_file,
                   sent, state, current_time, live_data, pnl_per_lot, exit_reason>>
    /\ UNCHANGED otherVars

\* n = NSELive() raises: the handler sends the CRITICAL message.
StartBotFails ==
    /\ program = "main" /\ pc = "start"
    /\ SendTelegram(Message("CRITICAL", "NSELive", 0))
    /\ pc' = "init_failed"
    /\ UNCHANGED <<env, clock, restarts, bot_state, trade_log, state_file, log_file,
                   state, current_time, live_data, pnl_per_lot, exit_reason>>
    /\ UNCHANGED otherVars

\* bot_state["status_message"] = f"CRITICAL ERROR: {e}"; return
StartBotFailsStatus ==
    /\ program = "main" /\ pc = "init_failed"
    /\ SetBotState("status_message", "CRITICAL ERROR")
    /\ pc' = "returned"
    /\ UNCHANGED <<env, clock, restarts, trade_log, state_file, log_file,
                   sent, state, current_time, live_data, pnl_per_lot, exit_reason>>
    /\ UNCHANGED otherVars

\* if os.path.exists(STATE_FILE): announce the restart.
CheckStateFile ==
    /\ program = "main" /\ pc = "check_file"
    /\ IF state_file.exists
       THEN /\ SendTelegram(Message("RESTARTED", "None", 0))
            /\ pc' = "load"
       ELSE /\ pc' = "loop_top"
            /\ UNCHANGED sent
    /\ UNCHANGED <<env, clock, restarts, bot_state, trade_log, state_file, log_file,
                   state, current_time, live_data, pnl_per_lot, exit_reason>>
    /\ UNCHANGED otherVars

\* state = json.load(f); a text that does not parse raises outside the try
\* block of the loop, and the thread dies.
LoadStateFile ==
    /\ program = "main" /\ pc = "load"
    /\ IF state_file.parses
       THEN /\ state' = JsonLoad(state_file)
            /\ pc' = "restore_active"
       ELSE /\ pc' = "died"
            /\ UNCHANGED state
    /\ UNCHANGED <<env, clock, restarts, bot_state, trade_log, state_file, log_file,
                   sent, current_time, live_data, pnl_per_lot, exit_reason>>
    /\ UNCHANGED otherVars

\* bot_state['trade_active'] = state.get('trade_active', False)
RestoreActive ==
    /\ program = "main" /\ pc = "restore_active"
    /\ SetBotState("trade_active", Get(state, "trade_active", FALSE))
    /\ pc' = "restore_book"
    /\ UNCHANGED <<env, clock, restarts, trade_log, state_file, log_file,
                   sent, state, current_time, live_data, pnl_per_lot, exit_reason>>
    /\ UNCHANGED otherVars

\* bot_state['position_book'] = state.get('position_book', {})
RestoreBook ==
    /\ program = "main" /\ pc = "restore_book"
    /\ SetBotState("position_book", Get(state, "position_book", EmptyBook))
    /\ pc' = "validate"
    /\ UNCHANGED <<env, clock, restarts, trade_log, state_file, log_file,
                   sent, state, current_time, live_data, pnl_per_lot, exit_reason>>
    /\ UNCHANGED otherVars

\* if not bot_state['trade_active'] or not bot_state['position_book']:
ValidateState ==
    /\ program = "main" /\ pc = "validate"
    /\ pc' = IF StateInvalid(bot_state) THEN "reset_active" ELSE "loop_top"
    /\ UNCHANGED <<env, clock, restarts, bot_state, trade_log, state_file, log_file,
                   sent, state, current_time, live_data, pnl_per_lot, exit_reason>>
    /\ UNCHANGED otherVars

\* bot_state['trade_active'] = False
ResetActive ==
    /\ program = "main" /\ pc = "reset_active"
    /\ SetBotState("trade_active", FALSE)
    /\ pc' = "reset_book"
    /\ UNCHANGED <<env, clock, restarts, trade_log, state_file, log_file,
                   sent, state, current_time, live_data, pnl_per_lot, exit_reason>>
    /\ UNCHANGED otherVars

\* bot_state['position_book'] = {}
ResetBook ==
    /\ program = "main" /\ pc = "reset_book"
    /\ SetBotState("position_book", EmptyBook)
    /\ pc' = "loop_top"
    /\ UNCHANGED <<env, clock, restarts, trade_log, state_file, log_file,
                   sent, state, current_time, live_data, pnl_per_lot, exit_reason>>
    /\ UNCHANGED otherVars

(***************************************************************************)
(* main.py: run_trading_bot, the polling loop                              *)
(***************************************************************************)
\* A cycle outside market hours: the status is set; an open position goes
\* to the forced exit, otherwise the loop breaks.
PollMarketClosed ==
    /\ program = "main" /\ pc = "loop_top"
    /\ \E t \in ClockReadings :
        /\ t >= clock
        /\ ~MarketOpen(t)
        /\ clock' = t
        /\ current_time' = t
    /\ SetBotState("status_message", "Market is closed.")
    /\ pc' = IF bot_state.trade_active THEN "mc_notify" ELSE "finally"
    /\ UNCHANGED <<env, restarts, trade_log, state_file, log_file,
                   sent, state, live_data, pnl_per_lot, exit_reason>>
    /\ UNCHANGED otherVars

\* A cycle inside market hours whose quote has a missing field: the status
\* is set, the driver sleeps and continues.
PollUnusable(market) ==
    /\ program = "main" /\ pc = "loop_top"
    /\ \E q \in market : AnyNone(q)
    /\ \E t \in ClockReadings :
        /\ t >= clock
        /\ MarketOpen(t)
        /\ clock' = t
    /\ SetBotState("status_message", "API Error or Missing Data. Skipping iteration.")
    /\ SleepAndContinue
    /\ UNCHANGED <<env, restarts, trade_log, state_file, log_file, sent, state>>
    /\ UNCHANGED otherVars

\* A cycle inside market hours whose quote is complete.
PollUsable(market) ==
    /\ program = "main" /\ pc = "loop_top"
    /\ \E t \in ClockReadings, q \in market :
        /\ t >= clock
        /\ MarketOpen(t)
        /\ ~AnyNone(q)
        /\ clock' = t
        /\ current_time' = t
        /\ \E ts \in FetchReadings(t) : live_data' = Fetched(q, ts)
    /\ pc' = "entry"
    /\ UNCHANGED <<env, restarts, bot_state, trade_log, state_file, log_file,
                   sent, state, pnl_per_lot, exit_reason>>
    /\ UNCHANGED otherVars

\* The entry logic up to the spot test: the time gate, then the spot range.
EntryLogic ==
    /\ program = "main" /\ pc = "entry"
    /\ IF bot_state.trade_active
       THEN /\ pc' = "monitor"
            /\ UNCHANGED <<bot_state, current_time, live_data, pnl_per_lot, exit_reason>>
       ELSE /\ SetBotState("status_message", "Waiting for entry.")
            /\ IF current_time < ENTRY_TIME_START
               THEN SleepAndContinue
               ELSE /\ pc' = IF SpotInEntryRange(live_data.spot)
                             THEN "enter_active" ELSE "monitor"
                    /\ UNCHANGED <<current_time, live_data, pnl_per_lot, exit_reason>>
    /\ UNCHANGED <<env, clock, restarts, trade_log, state_file, log_file, sent, state>>
    /\ UNCHANGED otherVars

\* bot_state['trade_active'] = True
EnterActive ==
    /\ program = "main" /\ pc = "enter_active"
    /\ SetBotState("trade_active", TRUE)
    /\ pc' = "enter_book"
    /\ UNCHANGED <<env, clock, restarts, trade_log, state_file, log_file,
                   sent, state, current_time, live_data, pnl_per_lot, exit_reason>>
    /\ UNCHANGED otherVars

\* bot_state['position_book'] = {...the four leg prices of live_data...}
EnterBook ==
    /\ program = "main" /\ pc = "enter_book"
    /\ SetBotState("position_book", BookOf(live_data))
    /\ pc' = "enter_open"
    /\ UNCHANGED <<env, clock, restarts, trade_log, state_file, log_file,
                   sent, state, current_time, live_data, pnl_per_lot, exit_reason>>
    /\ UNCHANGED otherVars

\* open(STATE_FILE, 'w'): the file is created or cut to nothing.
EnterOpenFile ==
    /\ program = "main" /\ pc = "enter_open"
    /\ state_file' = Unreadable
    /\ pc' = "enter_dump"
    /\ UNCHANGED <<env, clock, restarts, bot_state, trade_log, log_file,
                   sent, state, current_time, live_data, pnl_per_lot, exit_reason>>
    /\ UNCHANGED otherVars

\* The entry sequence with the dump left out at this point: the file stays
\* as open(STATE_FILE, 'w') left it while the entry is announced.
EnterDumpFile_Deferred ==
    /\ program = "main" /\ pc = "enter_dump"
    /\ pc' = "enter_notify"
    /\ UNCHANGED <<env, clock, restarts, bot_state, trade_log, state_file, log_file,
                   sent, state, current_time, live_data, pnl_per_lot, exit_reason>>
    /\ UNCHANGED otherVars

\* json.dump({'trade_active': True, 'position_book': ...}, f), file closed.
EnterDumpFile ==
    /\ program = "main" /\ pc = "enter_dump"
    /\ state_file' = JsonDump(StateObject(TRUE, bot_state.position_book))
    /\ pc' = "enter_notify"
    /\ UNCHANGED <<env, clock, restarts, bot_state, trade_log, log_file,
                   sent, state, current_time, live_data, pnl_per_lot, exit_reason>>
    /\ UNCHANGED otherVars

\* send_telegram_message(entry_message)
EnterNotify ==
    /\ program = "main" /\ pc = "enter_notify"
    /\ SendTelegram(Message("TRADE ENTERED", "None", 0))
    /\ pc' = "enter_log"
    /\ UNCHANGED <<env, clock, restarts, bot_state, trade_log, state_file, log_file,
                   state, current_time, live_data, pnl_per_lot, exit_reason>>
    /\ UNCHANGED otherVars

\* log_trade(live_data['timestamp'], 'ENTRY', PRIMARY_STRATEGY, spot, 0, ...)
EnterLog ==
    /\ program = "main" /\ pc = "enter_log"
    /\ trade_log' = LogTrade(trade_log, live_data.timestamp, "ENTRY", live_data.spot, 0,
                             "Trade entered")
    /\ pc' = "monitor"
    /\ UNCHANGED <<env, clock, restarts, bot_state, state_file, log_file,
                   sent, state, current_time, live_data, pnl_per_lot, exit_reason>>
    /\ UNCHANGED otherVars

\* The monitoring block up to `if exit_reason:`. A position book that lacks
\* a leg raises KeyError, caught by `except Exception`.
Monitor ==
    /\ program = "main" /\ pc = "monitor"
    /\ IF ~bot_state.trade_active
       THEN /\ SleepAndContinue
            /\ UNCHANGED bot_state
       ELSE IF BookLacksLeg(bot_state.position_book)
       THEN /\ pc' = "except"
            /\ UNCHANGED <<bot_state, current_time, live_data, pnl_per_lot, exit_reason>>
       ELSE LET pnl    == MarkToMarket(bot_state.position_book, live_data)
                reason == ExitReason(pnl, live_data.spot, current_time)
            IN  /\ RecordPnl(pnl)
                /\ IF reason # "None"
                   THEN /\ pc' = "exit_notify"
                        /\ pnl_per_lot' = pnl
                        /\ exit_reason' = reason
                        /\ UNCHANGED <<current_time, live_data>>
                   ELSE SleepAndContinue
    /\ UNCHANGED <<env, clock, restarts, trade_log, state_file, log_file, sent, state>>
    /\ UNCHANGED otherVars

\* send_telegram_message(exit_message) with the reason and the final P&L.
ExitNotify ==
    /\ program = "main" /\ pc = "exit_notify"
    /\ SendTelegram(Message("TRADE EXITED", exit_reason, pnl_per_lot))
    /\ pc' = "exit_log"
    /\ UNCHANGED <<env, clock, restarts, bot_state, trade_log, state_file, log_file,
                   state, current_time, live_data, pnl_per_lot, exit_reason>>
    /\ UNCHANGED otherVars

\* log_trade(live_data['timestamp'], 'EXIT', ..., spot, pnl_per_lot, exit_reason)
ExitLog ==
    /\ program = "main" /\ pc = "exit_log"
    /\ trade_log' = LogTrade(trade_log, live_data.timestamp, "EXIT", live_data.spot,
                             pnl_per_lot, exit_reason)
    /\ pc' = "exit_remove"
    /\ UNCHANGED <<env, clock, restarts, bot_state, state_file, log_file,
                   sent, state, current_time, live_data, pnl_per_lot, exit_reason>>
    /\ UNCHANGED otherVars

\* if os.path.exists(STATE_FILE): os.remove(STATE_FILE)
ExitRemoveFile ==
    /\ program = "main" /\ pc = "exit_remove"
    /\ state_file' = RemoveIfExists(state_file)
    /\ pc' = "exit_clear_active"
    /\ UNCHANGED <<env, clock, restarts, bot_state, trade_log, log_file,
                   sent, state, current_time, live_data, pnl_per_lot, exit_reason>>
    /\ UNCHANGED otherVars

\* bot_state['trade_active'] = False
ExitClearActive ==
    /\ program = "main" /\ pc = "exit_clear_active"
    /\ SetBotState("trade_active", FALSE)
    /\ pc' = "exit_clear_book"
    /\ UNCHANGED <<env, clock, restarts, trade_log, state_file, log_file,
                   sent, state, current_time, live_data, pnl_per_lot, exit_reason>>
    /\ UNCHANGED otherVars

\* bot_state['position_book'] = {}
ExitClearBook ==
    /\ program = "main" /\ pc = "exit_clear_book"
    /\ SetBotState("position_book", EmptyBook)
    /\ pc' = "exit_clear_pnl"
    /\ UNCHANGED <<env, clock, restarts, trade_log, state_file, log_file,
                   sent, state, current_time, live_data, pnl_per_lot, exit_reason>>
    /\ UNCHANGED otherVars

\* The end of the exit sequence going back to the top of the loop instead
\* of leaving it.
ExitClearPnl_Continue ==
    /\ program = "main" /\ pc = "exit_clear_pnl"
    /\ SetBotState("pnl_per_lot", 0)
    /\ pc' = "loop_top"
    /\ UNCHANGED <<env, clock, restarts, trade_log, state_file, log_file,
                   sent, state, current_time, live_data, pnl_per_lot, exit_reason>>
    /\ UNCHANGED otherVars

\* bot_state['pnl_per_lot'] = 0.0; break
ExitClearPnl ==
    /\ program = "main" /\ pc = "exit_clear_pnl"
    /\ SetBotState("pnl_per_lot", 0)
    /\ pc' = "finally"
    /\ UNCHANGED <<env, clock, restarts, trade_log, state_file, log_file,
                   sent, state, current_time, live_data, pnl_per_lot, exit_reason>>
    /\ UNCHANGED otherVars

\* Market closed with a position open: send the exit message, which carries
\* bot_state['pnl_per_lot'].
McNotify ==
    /\ program = "main" /\ pc = "mc_notify"
    /\ SendTelegram(Message("TRADE EXITED", "Market Closed", bot_state.pnl_per_lot))
    /\ pc' = "mc_remove"
    /\ UNCHANGED <<env, clock, restarts, bot_state, trade_log, state_file, log_file,
                   state, current_time, live_data, pnl_per_lot, exit_reason>>
    /\ UNCHANGED otherVars

\* if os.path.exists(STATE_FILE): os.remove(STATE_FILE)
McRemoveFile ==
    /\ program = "main" /\ pc = "mc_remove"
    /\ state_file' = RemoveIfExists(state_file)
    /\ pc' = "mc_clear_active"
    /\ UNCHANGED <<env, clock, restarts, bot_state, trade_log, log_file,
                   sent, state, current_time, live_data, pnl_per_lot, exit_reason>>
    /\ UNCHANGED otherVars

\* bot_state['trade_active'] = False
McClearActive ==
    /\ program = "main" /\ pc = "mc_clear_active"
    /\ SetBotState("trade_active", FALSE)
    /\ pc' = "mc_clear_book"
    /\ UNCHANGED <<env, clock, restarts, trade_log, state_file, log_file,
                   sent, state, current_time, live_data, pnl_per_lot, exit_reason>>
    /\ UNCHANGED otherVars

\* bot_state['position_book'] = {}; break
McClearBook ==
    /\ program = "main" /\ pc = "mc_clear_book"
    /\ SetBotState("position_book", EmptyBook)
    /\ pc' = "finally"
    /\ UNCHANGED <<env, clock, restarts, trade_log, state_file, log_file,
                   sent, state, current_time, live_data, pnl_per_lot, exit_reason>>
    /\ UNCHANGED otherVars

\* except Exception: bot_state["status_message"] = f"CRITICAL ERROR: {e}";
\* the status and the traceback are then printed.
ExceptHandler ==
    /\ program = "main" /\ pc = "except"
    /\ SetBotState("status_message", "CRITICAL ERROR")
    /\ pc' = "except_notify"
    /\ UNCHANGED <<env, clock, restarts, trade_log, state_file, log_file,
                   sent, state, current_time, live_data, pnl_per_lot, exit_reason>>
    /\ UNCHANGED otherVars

\* send_telegram_message(f"CRITICAL ERROR: {e} ... Shutting down.")
ExceptNotify ==
    /\ program = "main" /\ pc = "except_notify"
    /\ SendTelegram(Message("CRITICAL", "Exception", 0))
    /\ pc' = "finally"
    /\ UNCHANGED <<env, clock, restarts, bot_state, trade_log, state_file, log_file,
                   state, current_time, live_data, pnl_per_lot, exit_reason>>
    /\ UNCHANGED otherVars

\* finally: if not trade_log.empty: trade_log.to_csv(LOG_FILE_NAME) begins.
\* to_csv opens the file for writing, which creates it or cuts it to
\* nothing at once; the rows are written afterwards.
Finally ==
    /\ program = "main" /\ pc = "finally"
    /\ IF trade_log # <<>>
       THEN log_file' = ToCsv(<<>>) /\ pc' = "finally_write"
       ELSE log_file' = log_file /\ pc' = "finished"
    /\ UNCHANGED <<env, clock, restarts, bot_state, trade_log, state_file,
                   sent, state, current_time, live_data, pnl_per_lot, exit_reason>>
    /\ UNCHANGED otherVars

\* to_csv goes on: the next row of trade_log reaches the opened file; after
\* the last row the file is closed and the thread finishes.
FinallyWrite ==
    /\ program = "main" /\ pc = "finally_write"
    /\ Len(log_file.rows) < Len(trade_log)
    /\ log_file' = ToCsv(SubSeq(trade_log, 1, Len(log_file.rows) + 1))
    /\ pc' = IF Len(log_file.rows) + 1 = Len(trade_log)
             THEN "finished" ELSE "finally_write"
    /\ UNCHANGED <<env, clock, restarts, bot_state, trade_log, state_file,
                   sent, state, current_time, live_data, pnl_per_lot, exit_reason>>
    /\ UNCHANGED otherVars

\* The statements after a break of the polling loop.
AfterLoopPcs == {"finally", "finally_write", "finished"}

\* The process is killed at any statement and started again: the module is
\* imported afresh (bot_state and trade_log as defined at module level), the
\* files and the notifications already sent stay, and the start-up code
\* sends the deployment message before it starts the bot thread. A request
\* being served and a morning job under way end with the process; a
\* response already returned stays with its client.
Restart ==
    /\ program = "main"
    /\ restarts < MaxRestarts
    /\ restarts' = restarts + 1
    /\ bot_state' = InitialBotState
    /\ trade_log' = <<>>
    /\ state' = <<>>
    /\ ClearLocals
    /\ SendTelegram(DeploymentMessage)
    /\ pc' = "start"
    /\ status_pc' = IF status_pc = "reading" THEN "idle" ELSE status_pc
    /\ status_response' = IF status_pc = "reading" THEN NoResponse ELSE status_response
    /\ morning_pc' = "idle"
    /\ morning_message' = NoMessage
    /\ UNCHANGED <<env, clock, state_file, log_file>>
    /\ UNCHANGED <<program, btVars>>

\* A manual interrupt (Ctrl-C, SIGINT) of the process. Python raises
\* KeyboardInterrupt in the main thread only; run_trading_bot runs in a
\* daemon Thread, so its `except KeyboardInterrupt` clause is never entered:
\* the main thread ends and the daemon thread is stopped where it is,
\* without running its except or finally blocks.
ManualInterrupt ==
    /\ program = "main"
    /\ pc \notin {"returned", "died", "finished", "killed"}
    /\ pc' = "killed"
    /\ UNCHANGED <<env, clock, restarts, bot_state, trade_log, state_file, log_file,
                   sent, state, current_time, live_data, pnl_per_lot, exit_reason>>
    /\ UNCHANGED otherVars

(***************************************************************************)
(* main.py: fetch_live_data when the NSE client or the response fails      *)
(***************************************************************************)
\* The exception classes named in fetch_live_data's except clause.
AdapterCatches ==
    {"RequestException", "JSONDecodeError", "KeyError", "IndexError", "TypeError"}

\* What a fetch can raise: transport failures (RequestException,
\* JSONDecodeError) and, on a response of another shape than expected,
\* KeyError, IndexError, TypeError, AttributeError (.get on a value that is
\* no dict) and ValueError (float of a lastPrice that is no number).
FetchErrors ==
    AdapterCatches \cup {"AttributeError", "ValueError"}

\* A cycle inside market hours in which the fetch raises. An exception the
\* adapter catches leaves the fields not yet filled at None and the quote is
\* returned, so the driver skips the cycle; any other exception leaves
\* fetch_live_data and reaches the driver's `except Exception`.
PollFetchError(market) ==
    /\ program = "main" /\ pc = "loop_top"
    /\ \E t \in ClockReadings, caught \in {(e \in AdapterCatches) : e \in FetchErrors} :
        /\ t >= clock
        /\ MarketOpen(t)
        /\ clock' = t
        /\ IF caught
           THEN /\ \E q \in market : AnyNone(q)
                /\ SetBotState("status_message",
                               "API Error or Missing Data. Skipping iteration.")
                /\ SleepAndContinue
           ELSE /\ current_time' = t
                /\ pc' = "except"
                /\ UNCHANGED <<bot_state, live_data, pnl_per_lot, exit_reason>>
    /\ UNCHANGED <<env, restarts, trade_log, state_file, log_file, sent, state>>
    /\ UNCHANGED otherVars

(***************************************************************************)
(* main.py: the readers of bot_state that run beside the bot thread        *)
(***************************************************************************)
\* status_page, first half: a request arrives and the handler reads
\* bot_state["status_message"] and bot_state["trade_active"]. The handler
\* takes no lock, so the bot thread may run before the remaining reads.
StatusPageBegin ==
    /\ program = "main"
    /\ status_pc \in {"idle", "responded"}
    /\ status_response' = [NoResponse EXCEPT
                              !.status = bot_state.status_message,
                              !.trade_active = bot_state.trade_active]
    /\ status_pc' = "reading"
    /\ UNCHANGED <<program, btVars, threadVars, morning_pc, morning_message>>

\* status_page, second half: the handler reads bot_state["pnl_per_lot"] and
\* bot_state["position_book"] and returns the JSON object.
StatusPageRespond ==
    /\ program = "main"
    /\ status_pc = "reading"
    /\ status_response' = [status_response EXCEPT
                              !.pnl_per_lot = bot_state.pnl_per_lot,
                              !.position_book = bot_state.position_book]
    /\ status_pc' = "responded"
    /\ UNCHANGED <<program, btVars, threadVars, morning_pc, morning_message>>

\* The mornings on which the job has run or is running.
Mornings ==
    Cardinality({i \in 1..Len(sent) : sent[i].kind = "GOOD MORNING"})
    + (IF morning_pc = "send" THEN 1 ELSE 0)

\* morning_status_update, the scheduler's 09:30 job, first half: the job
\* builds its message from bot_state["status_message"]. The scheduler runs
\* the job in a thread of its own at 09:30 of every day the process lives,
\* by the wall clock and whatever the bot thread is doing or has done: the
\* loop's last reading does not bound it. The job takes no lock, so the bot
\* thread may run before the message is handed over.
MorningStatusUpdate ==
    /\ program = "main"
    /\ morning_pc = "idle"
    /\ Mornings < MaxMornings
    /\ morning_message' = Message("GOOD MORNING", bot_state.status_message, 0)
    /\ morning_pc' = "send"
    /\ UNCHANGED <<program, btVars, threadVars, status_pc, status_response>>

\* morning_status_update, second half: send_telegram_message(message).
MorningSend ==
    /\ program = "main"
    /\ morning_pc = "send"
    /\ SendTelegram(morning_message)
    /\ morning_pc' = "idle"
    /\ morning_message' = NoMessage
    /\ UNCHANGED <<env, pc, clock, restarts, bot_state, trade_log, state_file,
                   log_file, state, current_time, live_data, pnl_per_lot,
                   exit_reason>>
    /\ UNCHANGED <<program, btVars, status_pc, status_response>>

(***************************************************************************)
(* The two programs                                                        *)
(***************************************************************************)
\* main.py as imported, when the bot thread starts: the module-level
\* globals, the deployment message sent, nothing fetched yet.
LiveInit ==
    /\ pc = "start"
    /\ clock = MARKET_OPEN_TIME - 1
    /\ restarts = 0
    /\ bot_state = InitialBotState
    /\ trade_log = <<>>
    /\ log_file = NoLogFile
    /\ sent = <<DeploymentMessage>>
    /\ state = <<>>
    /\ current_time = 0
    /\ live_data = NoQuote
    /\ pnl_per_lot = 0
    /\ exit_reason = "None"
    /\ status_pc = "idle"
    /\ status_response = NoResponse
    /\ morning_pc = "idle"
    /\ morning_message = NoMessage

vars == <<program, btVars, liveVars>>

Init ==
    /\ program \in {"backtester", "main"}
    /\ BtInit
    /\ LiveInit
    /\ IF program = "main"
       THEN env \in Environments /\ state_file \in InitialStateFiles
       ELSE env = DefaultEnv /\ state_file = NoFile

Next ==
    \/ BacktestNoFeed
    \/ BacktestBegin
    \/ BacktestRow
    \/ BacktestFeedEnd
    \/ BacktestFinish
    \/ StartBot
    \/ StartBotFails
    \/ StartBotFailsStatus
    \/ CheckStateFile
    \/ LoadStateFile
    \/ RestoreActive
    \/ RestoreBook
    \/ ValidateState
    \/ ResetActive
    \/ ResetBook
    \/ PollMarketClosed
    \/ PollUnusable(Quotes)
    \/ PollUsable(Quotes)
    \/ PollFetchError(Quotes)
    \/ EntryLogic
    \/ EnterActive
    \/ EnterBook
    \/ EnterOpenFile
    \/ EnterDumpFile
    \/ EnterNotify
    \/ EnterLog
    \/ Monitor
    \/ ExitNotify
    \/ ExitLog
    \/ ExitRemoveFile
    \/ ExitClearActive
    \/ ExitClearBook
    \/ ExitClearPnl
    \/ McNotify
    \/ McRemoveFile
    \/ McClearActive
    \/ McClearBook
    \/ ExceptHandler
    \/ ExceptNotify
    \/ Finally
    \/ FinallyWrite

Spec == Init /\ [][Next]_vars

\* The environments of the behaviours with restarts: the entry band [1, 2]
\* with the stop-loss band [1, MaxSpot] and a profit target of one price
\* unit on one lot.
RestartEnvironments ==
    [MIN_SPOT : {1}, MAX_SPOT : {2},
     STOP_LOSS_MIN : {1}, STOP_LOSS_MAX : {MaxSpot},
     PROFIT_TARGET_PER_LOT : {LOT_SIZE}]

\* State files found at the first start of the behaviours with restarts.
RestartStateFiles ==
    {NoFile, JsonDump(<<>>),
     JsonDump(StateObject(TRUE, [k \in BookKeys \ {"SELL_CE"} |-> 0]))}

\* main.py started, with no state file on disk or a malformed one.
InitRestart ==
    /\ program = "main"
    /\ BtInit
    /\ LiveInit
    /\ env \in RestartEnvironments
    /\ state_file \in RestartStateFiles

NextRestart ==
    \/ StartBot
    \/ StartBotFails
    \/ StartBotFailsStatus
    \/ CheckStateFile
    \/ LoadStateFile
    \/ RestoreActive
    \/ RestoreBook
    \/ ValidateState
    \/ ResetActive
    \/ ResetBook
    \/ PollMarketClosed
    \/ PollUnusable(RestartQuotes)
    \/ PollUsable(RestartQuotes)
    \/ PollFetchError(RestartQuotes)
    \/ EntryLogic
    \/ EnterActive
    \/ EnterBook
    \/ EnterOpenFile
    \/ EnterDumpFile
    \/ EnterNotify
    \/ EnterLog
    \/ Monitor
    \/ ExitNotify
    \/ ExitLog
    \/ ExitRemoveFile
    \/ ExitClearActive
    \/ ExitClearBook
    \/ ExitClearPnl
    \/ McNotify
    \/ McRemoveFile
    \/ McClearActive
    \/ McClearBook
    \/ ExceptHandler
    \/ ExceptNotify
    \/ Finally
    \/ FinallyWrite
    \/ Restart

\* The live driver over process restarts.
SpecRestart == InitRestart /\ [][NextRestart]_vars

\* State files found at the start of a session: none, an empty object, a
\* book lacking a leg, and a file as an entry writes it.
StatusStateFiles ==
    RestartStateFiles \cup {JsonDump(StateObject(TRUE, [k \in BookKeys |-> 0]))}

InitStatus ==
    /\ program = "main"
    /\ BtInit
    /\ LiveInit
    /\ env \in RestartEnvironments
    /\ state_file \in StatusStateFiles

NextStatus ==
    \/ StartBot
    \/ StartBotFails
    \/ StartBotFailsStatus
    \/ CheckStateFile
    \/ LoadStateFile
    \/ RestoreActive
    \/ RestoreBook
    \/ ValidateState
    \/ ResetActive
    \/ ResetBook
    \/ PollMarketClosed
    \/ PollUnusable(RestartQuotes)
    \/ PollUsable(RestartQuotes)
    \/ PollFetchError(RestartQuotes)
    \/ EntryLogic
    \/ EnterActive
    \/ EnterBook
    \/ EnterOpenFile
    \/ EnterDumpFile
    \/ EnterNotify
    \/ EnterLog
    \/ Monitor
    \/ ExitNotify
    \/ ExitLog
    \/ ExitRemoveFile
    \/ ExitClearActive
    \/ ExitClearBook
    \/ ExitClearPnl
    \/ McNotify
    \/ McRemoveFile
    \/ McClearActive
    \/ McClearBook
    \/ ExceptHandler
    \/ ExceptNotify
    \/ Finally
    \/ FinallyWrite
    \/ StatusPageBegin
    \/ StatusPageRespond

\* The bot thread together with the status page.
SpecStatus == InitStatus /\ [][NextStatus]_vars

NextMorning ==
    \/ StartBot
    \/ StartBotFails
    \/ StartBotFailsStatus
    \/ CheckStateFile
    \/ LoadStateFile
    \/ RestoreActive
    \/ RestoreBook
    \/ ValidateState
    \/ ResetActive
    \/ ResetBook
    \/ PollMarketClosed
    \/ PollUnusable(RestartQuotes)
    \/ PollUsable(RestartQuotes)
    \/ PollFetchError(RestartQuotes)
    \/ EntryLogic
    \/ EnterActive
    \/ EnterBook
    \/ EnterOpenFile
    \/ EnterDumpFile
    \/ EnterNotify
    \/ EnterLog
    \/ Monitor
    \/ ExitNotify
    \/ ExitLog
    \/ ExitRemoveFile
    \/ ExitClearActive
    \/ ExitClearBook
    \/ ExitClearPnl
    \/ McNotify
    \/ McRemoveFile
    \/ McClearActive
    \/ McClearBook
    \/ ExceptHandler
    \/ ExceptNotify
    \/ Finally
    \/ FinallyWrite
    \/ MorningStatusUpdate
    \/ MorningSend

\* The bot thread together with the scheduler's morning job. The job and
\* the status page share nothing but their reads of bot_state, which
\* neither writes, so each is set beside the bot thread on its own.
SpecMorning == InitStatus /\ [][NextMorning]_vars

\* main.py started, in any of the environments and on any of the state
\* files.
InitFeed ==
    /\ program = "main"
    /\ BtInit
    /\ LiveInit
    /\ env \in Environments
    /\ state_file \in InitialStateFiles

NextFeed ==
    \/ StartBot
    \/ StartBotFails
    \/ StartBotFailsStatus
    \/ CheckStateFile
    \/ LoadStateFile
    \/ RestoreActive
    \/ RestoreBook
    \/ ValidateState
    \/ ResetActive
    \/ ResetBook
    \/ PollMarketClosed
    \/ PollUnusable(Quotes)
    \/ PollUsable(Quotes)
    \/ PollFetchError(Quotes)
    \/ EntryLogic
    \/ EnterActive
    \/ EnterBook
    \/ EnterOpenFile
    \/ EnterDumpFile
    \/ EnterNotify
    \/ EnterLog
    \/ Monitor
    \/ ExitNotify
    \/ ExitLog
    \/ ExitRemoveFile
    \/ ExitClearActive
    \/ ExitClearBook
    \/ ExitClearPnl
    \/ McNotify
    \/ McRemoveFile
    \/ McClearActive
    \/ McClearBook
    \/ ExceptHandler
    \/ ExceptNotify
    \/ Finally
    \/ FinallyWrite

\* The live driver on a feed whose fetches may raise.
SpecFeed == InitFeed /\ [][NextFeed]_vars

NextInterrupt ==
    \/ StartBot
    \/ StartBotFails
    \/ StartBotFailsStatus
    \/ CheckStateFile
    \/ LoadStateFile
    \/ RestoreActive
    \/ RestoreBook
    \/ ValidateState
    \/ ResetActive
    \/ ResetBook
    \/ PollMarketClosed
    \/ PollUnusable(Quotes)
    \/ PollUsable(Quotes)
    \/ PollFetchError(Quotes)
    \/ EntryLogic
    \/ EnterActive
    \/ EnterBook
    \/ EnterOpenFile
    \/ EnterDumpFile
    \/ EnterNotify
    \/ EnterLog
    \/ Monitor
    \/ ExitNotify
    \/ ExitLog
    \/ ExitRemoveFile
    \/ ExitClearActive
    \/ ExitClearBook
    \/ ExitClearPnl
    \/ McNotify
    \/ McRemoveFile
    \/ McClearActive
    \/ McClearBook
    \/ ExceptHandler
    \/ ExceptNotify
    \/ Finally
    \/ FinallyWrite
    \/ ManualInterrupt

\* The live driver in a process that may be interrupted by hand.
SpecInterrupt == InitFeed /\ [][NextInterrupt]_vars

(***************************************************************************)
(* Properties                                                              *)
(***************************************************************************)
\* The last element of a non-empty sequence.
Last(seq) == seq[Len(seq)]

\* A clock reading inside [MARKET_OPEN_TIME, MARKET_CLOSE_TIME].
InMarketHours(t) == 565 <= t /\ t <= 930

\* A field of a quote is missing.
HasMissingField(data) == \E k \in QuoteKeys : data[k] = None

\* The statements of the polling loop at which a restored or entered
\* position is held: neither being written at entry nor being closed.
HoldingPcs == {"loop_top", "entry", "monitor", "enter_notify", "enter_log",
               "exit_notify", "exit_log", "mc_notify"}

\* The statements of the forced exit at market close.
MarketClosedPcs == {"mc_notify", "mc_remove", "mc_clear_active", "mc_clear_book"}

\* The statements of the entry sequence.
EnteringPcs == {"enter_active", "enter_book", "enter_open", "enter_dump",
                "enter_notify", "enter_log"}

\* The state file holds an active flag and a book with all four legs.
WellFormed(file) ==
    /\ file.exists /\ file.parses
    /\ DOMAIN file.obj = {"trade_active", "position_book"}
    /\ file.obj.trade_active = TRUE
    /\ DOMAIN file.obj.position_book = BookKeys

\* C1: in the live driver, a cycle inside market hours whose fetch returned
\* a quote with a missing field makes no transition: the thread is back at
\* the top of the loop with trade_active, position_book and the state file
\* as they were, and no notification or log row is produced, idle or
\* active. (A fetch that raised returned no quote: the thread is at the
\* driver's handler.)
C1_UnusableQuoteNoTransition ==
    [][ (pc = "loop_top" /\ pc' # "except"
            /\ InMarketHours(clock') /\ HasMissingField(live_data'))
        => /\ pc' = "loop_top"
           /\ bot_state'.trade_active = bot_state.trade_active
           /\ bot_state'.position_book = bot_state.position_book
           /\ state_file' = state_file
           /\ sent' = sent
           /\ trade_log' = trade_log ]_vars

\* An open position has just skipped a cycle for missing data.
C1_Witness ==
    /\ pc = "loop_top"
    /\ bot_state.trade_active
    /\ DOMAIN bot_state.position_book = BookKeys
    /\ state_file.exists
    /\ bot_state.status_message = "API Error or Missing Data. Skipping iteration."

\* C2: in the backtest, a net credit <= 0 at the entry gate ends the run
\* with a single TRADE REJECTED row: the engine never becomes active, the
\* position book is never populated, no ENTRY or EXIT row is logged and no
\* further row is processed.
C2_RejectionNeverActive ==
    (\E i \in 1..Len(bt_trade_log) : bt_trade_log[i].event = "TRADE REJECTED")
    => /\ ~bt_trade_active
       /\ bt_position_book = EmptyBook
       /\ \A i \in 1..Len(bt_trade_log) : bt_trade_log[i].event \notin {"ENTRY", "EXIT"}
       /\ Cardinality({i \in 1..Len(bt_trade_log) :
                          bt_trade_log[i].event = "TRADE REJECTED"}) = 1
       /\ bt_pc # "loop"

\* The conditions of a live exit, on the cycle's quote and clock reading.
LiveProfitTarget == bot_state.pnl_per_lot >= env.PROFIT_TARGET_PER_LOT
LiveStopLoss ==
    live_data.spot < env.STOP_LOSS_MIN \/ live_data.spot > env.STOP_LOSS_MAX
LiveEndOfDay == current_time >= 930

\* The conditions of a backtest exit, on the last row consumed.
BtProfitTarget == 5 * bt_pnl >= 2 * bt_net_credit
BtStopLoss == 5 * bt_pnl <= -(4 * bt_net_credit)
BtEndOfDay == bt_clock >= 910

\* This process entered a trade: an ENTRY row is in its trade log.
EnteredThisSession ==
    \E i \in 1..Len(trade_log) : trade_log[i].action = "ENTRY"

\* The first of three conditions that holds, or "None".
FirstOf(c1, r1, c2, r2, c3, r3) ==
    IF c1 THEN r1 ELSE IF c2 THEN r2 ELSE IF c3 THEN r3 ELSE "None"

\* An exit decided on a quote reports the first of ProfitTarget, StopLoss,
\* EndOfDay that holds, in both engines.
QuoteExitsInOrder ==
    /\ pc \in {"exit_notify", "exit_log"}
       => /\ exit_reason # "None"
          /\ exit_reason = FirstOf(LiveProfitTarget, "PROFIT_TARGET",
                                   LiveStopLoss, "STOP_LOSS",
                                   LiveEndOfDay, "END_OF_DAY")
    /\ pc = "exit_log"
       => Last(sent) = Message("TRADE EXITED", exit_reason, bot_state.pnl_per_lot)
    /\ pc = "exit_remove"
       => /\ Last(trade_log).action = "EXIT"
          /\ Last(trade_log).commentary = exit_reason
    /\ (bt_trade_log # <<>> /\ Last(bt_trade_log).event = "EXIT")
       => Last(bt_trade_log).details.exit_reason =
             FirstOf(BtProfitTarget, "Profit Target Hit",
                     BtStopLoss, "Stop-Loss Hit",
                     BtEndOfDay, "End of Day Exit")

\* C3 (as amended): an exit decided on a quote reports the first of
\* ProfitTarget, StopLoss, EndOfDay that holds at that cycle; the live
\* driver reports MarketClosed in the cycles whose clock reading is outside
\* market hours, where no quote is evaluated, whether or not the
\* end-of-day cutoff has been reached.
C3_ExitReasonPriority ==
    /\ QuoteExitsInOrder
    /\ pc \in MarketClosedPcs => ~InMarketHours(current_time)
    /\ pc = "mc_remove"
       => Last(sent) = Message("TRADE EXITED", "Market Closed", bot_state.pnl_per_lot)

\* A live exit at which the profit target, the stop-loss band and the
\* end-of-day cutoff all hold: the profit target is reported.
C3_Witness ==
    /\ pc = "exit_log"
    /\ LiveProfitTarget /\ LiveStopLoss /\ LiveEndOfDay
    /\ Last(sent).reason = "PROFIT_TARGET"

\* C3 (as stated): the reason reported is the first that holds in the order
\* ProfitTarget, StopLoss, EndOfDay, MarketClosed; MarketClosed is reported
\* only when the end-of-day cutoff, earlier in the order, does not hold.
C3_FirstInFixedOrder ==
    /\ QuoteExitsInOrder
    /\ (pc \in MarketClosedPcs /\ EnteredThisSession) => ~LiveEndOfDay

\* The last notification is the forced exit at market close.
MarketClosedExitSent ==
    sent # <<>> /\ Last(sent).kind = "TRADE EXITED" /\ Last(sent).reason = "Market Closed"

\* C4: a live cycle whose clock reading is outside market hours fetches no
\* quote and stops the loop; an open position is first force-exited with
\* reason Market Closed whatever the P&L (exit message sent, state file
\* deleted, trade_active cleared, position book emptied); with no position
\* open the loop stops with trade state, state file and events unchanged.
C4_MarketClosedCycle ==
    /\ [][ (pc = "loop_top" /\ ~InMarketHours(clock'))
           => /\ live_data' = live_data
              /\ bot_state'.trade_active = bot_state.trade_active
              /\ bot_state'.position_book = bot_state.position_book
              /\ state_file' = state_file /\ sent' = sent /\ trade_log' = trade_log
              /\ pc' = IF bot_state.trade_active THEN "mc_notify" ELSE "finally" ]_vars
    /\ [][ (pc \in MarketClosedPcs \cup AfterLoopPcs)
           => pc' \in MarketClosedPcs \cup AfterLoopPcs ]_vars
    /\ [][ pc = "mc_notify"
           => /\ pc' = "mc_remove"
              /\ sent' = Append(sent, Message("TRADE EXITED", "Market Closed",
                                              bot_state.pnl_per_lot)) ]_vars
    /\ [](pc \in MarketClosedPcs \ {"mc_notify"} => MarketClosedExitSent)
    /\ [](bot_state.status_message = "Market is closed."
            => ~InMarketHours(current_time))
    /\ []((pc \in AfterLoopPcs
             /\ bot_state.status_message = "Market is closed.")
            => /\ ~bot_state.trade_active
               /\ bot_state.position_book = EmptyBook
               /\ MarketClosedExitSent => ~state_file.exists)

\* The loop has stopped after a forced exit of a position that showed a
\* loss at its last quote.
C4_Witness ==
    /\ pc = "finished"
    /\ MarketClosedExitSent
    /\ Last(sent).pnl < 0
    /\ ~bot_state.trade_active /\ bot_state.position_book = EmptyBook
    /\ ~state_file.exists

\* No TRADE ENTERED notification follows another without a TRADE EXITED
\* notification between them.
NoSecondEntry ==
    \A i, j \in 1..Len(sent) :
        (i < j /\ sent[i].kind = "TRADE ENTERED" /\ sent[j].kind = "TRADE ENTERED")
        => \E k \in (i + 1)..(j - 1) : sent[k].kind = "TRADE EXITED"

\* C5: the state file written at entry, {trade_active: true, position_book:
\* four leg prices}, brings the engine back to Active after a restart with
\* the same position book: whenever the thread is in the polling loop and
\* that file is on disk, the engine is active with exactly the book of the
\* file, before and after the restart, and the restart is not followed by
\* a second entry.
C5_StateRoundTrip ==
    /\ (pc \in HoldingPcs /\ WellFormed(state_file))
       => /\ bot_state.trade_active
          /\ bot_state.position_book = state_file.obj.position_book
    /\ NoSecondEntry

\* After a restart the engine monitors the position entered before it, with
\* the short call entered at a price of 1.
C5_Witness ==
    /\ restarts > 0
    /\ pc = "monitor"
    /\ \E i \in 1..Len(sent) : sent[i].kind = "TRADE ENTERED"
    /\ trade_log = <<>>
    /\ bot_state.trade_active
    /\ WellFormed(state_file)
    /\ bot_state.position_book.SELL_CE = 1

\* C6: a state file that is present at start but malformed (a position book
\* lacking a leg, or unreadable text) is discarded: the thread reaches the
\* polling loop, and it is never active there with a book that lacks a leg.
C6_MalformedStateDiscarded ==
    /\ pc # "died"
    /\ (pc = "loop_top" /\ bot_state.trade_active)
       => DOMAIN bot_state.position_book = BookKeys

\* The statements at which the live position book or the state file is
\* written: state restoration, entry, and the two exit sequences.
WritingPcs ==
    {"restore_active", "restore_book", "validate", "reset_active", "reset_book",
     "enter_active", "enter_book", "enter_open", "enter_dump",
     "exit_remove", "exit_clear_active", "exit_clear_book", "exit_clear_pnl",
     "mc_remove", "mc_clear_active", "mc_clear_book"}

\* C7: the position book is populated once, at entry, and does not change
\* while the engine is active: hold cycles and skipped cycles leave the
\* book and the state file as they were after entry, in the live driver and
\* in the backtest; they change only at entry, restoration and close.
C7_BookImmutableWhileActive ==
    /\ [][ (program = "main" /\ bot_state.trade_active /\ pc \notin WritingPcs)
           => /\ bot_state'.position_book = bot_state.position_book
              /\ state_file' = state_file ]_vars
    /\ [][ bot_state'.position_book # bot_state.position_book
           => pc \in {"restore_book", "reset_book", "enter_book",
                      "exit_clear_book", "mc_clear_book"} ]_vars
    /\ [][ bt_trade_active => bt_position_book' = bt_position_book ]_vars
    /\ [][ bt_position_book' # bt_position_book
           => (bt_position_book = EmptyBook /\ bt_trade_active') ]_vars

\* An entered position was held on a quote that differed from the entry
\* quote, and the next cycle is about to begin.
C7_Witness ==
    /\ pc = "loop_top"
    /\ bot_state.trade_active
    /\ EnteredThisSession
    /\ bot_state.pnl_per_lot < 0
    /\ bot_state.status_message = "Position active."
    /\ WellFormed(state_file)

\* The live entry gate on the cycle's clock reading and spot.
EntryGate ==
    /\ current_time >= 570
    /\ env.MIN_SPOT <= live_data.spot
    /\ live_data.spot <= env.MAX_SPOT

\* C8: an idle live engine given a usable quote enters if and only if the
\* clock reading is >= ENTRY_TIME_START and MIN_SPOT <= spot <= MAX_SPOT,
\* bounds included; when the gate fails it stays idle, writes no state file
\* and is back at the top of the loop for the next cycle.
C8_EntryGate ==
    /\ [](pc \in EnteringPcs => EntryGate)
    /\ []((pc = "monitor" /\ ~bot_state.trade_active) => ~EntryGate)
    /\ [][ (pc = "entry" /\ ~bot_state.trade_active)
           => /\ EntryGate => pc' = "enter_active"
              /\ ~EntryGate => /\ pc' \in {"loop_top", "monitor"}
                               /\ ~bot_state'.trade_active
                               /\ state_file' = state_file ]_vars
    /\ [][ (pc = "monitor" /\ ~bot_state.trade_active)
           => /\ pc' = "loop_top"
              /\ ~bot_state'.trade_active
              /\ state_file' = state_file ]_vars
    /\ [](pc \in {"enter_notify", "enter_log"} => bot_state.trade_active)

\* The engine has entered at the start of the entry window with the spot on
\* the upper bound of a band whose lower bound is another value.
C8_Witness ==
    /\ pc = "enter_log"
    /\ bot_state.trade_active
    /\ current_time = 570
    /\ live_data.spot = env.MAX_SPOT
    /\ env.MIN_SPOT < env.MAX_SPOT

\* C9: at a live entry the position book is exactly the four leg prices of
\* the quote that passed the gate, and the state file written in that cycle
\* records trade_active = true with that same book.
C9_EntryBookAndFile ==
    pc \in {"enter_notify", "enter_log"}
    => /\ DOMAIN bot_state.position_book = BookKeys
       /\ bot_state.position_book.SELL_CE = live_data.sell_ce_ltp
       /\ bot_state.position_book.BUY_CE = live_data.buy_ce_ltp
       /\ bot_state.position_book.SELL_PE = live_data.sell_pe_ltp
       /\ bot_state.position_book.BUY_PE = live_data.buy_pe_ltp
       /\ WellFormed(state_file)
       /\ state_file.obj.position_book = bot_state.position_book

\* An entry on a quote whose short call trades at 1 and whose other legs
\* trade at 0.
C9_Witness ==
    /\ pc = "enter_log"
    /\ live_data.sell_ce_ltp = 1
    /\ live_data.buy_ce_ltp = 0
    /\ WellFormed(state_file)

\* The backtest has accepted a trade: active with a positive net credit.
BtAccepted == bt_trade_active /\ bt_net_credit > 0

\* The entry prices 100/40/90/35 of the worked example.
ScenarioBook == [sell_ce |-> 100, buy_ce |-> 40, sell_pe |-> 90, buy_pe |-> 35]

\* The backtest ended on an EXIT row.
BtExited == bt_trade_log # <<>> /\ Last(bt_trade_log).event = "EXIT"

\* C10: in the backtest net credit = (short call - long call) + (short put
\* - long put) of the entry prices, profit target = 0.40 x net credit and
\* stop-loss = 0.80 x net credit; an active engine exits with ProfitTarget
\* exactly when P&L >= target, with StopLoss exactly when P&L <= -stop
\* (both inclusive) and with EndOfDay when neither holds and the row time is
\* >= 15:10. Entry 100/40/90/35 gives 115, 46 and 92; P&L 50 exits
\* ProfitTarget, -95 StopLoss, 10 at or after the cutoff EndOfDay.
C10_BacktestThresholds ==
    /\ bt_trade_active
       => bt_net_credit = (bt_position_book.sell_ce - bt_position_book.buy_ce)
                          + (bt_position_book.sell_pe - bt_position_book.buy_pe)
    /\ BtAccepted
       => /\ 100 * (2 * bt_net_credit) = 5 * bt_profit_target
          /\ 100 * (4 * bt_net_credit) = 5 * bt_stop_loss
    /\ (BtAccepted /\ bt_position_book = ScenarioBook)
       => /\ bt_net_credit = 115
          /\ bt_profit_target = 46 * 100
          /\ bt_stop_loss = 92 * 100
    /\ BtExited
       => LET row == Last(bt_trade_log)
              reason == row.details.exit_reason
          IN  /\ row.details.pnl = bt_pnl /\ row.timestamp = bt_clock
              /\ reason = "Profit Target Hit" <=> BtProfitTarget
              /\ reason = "Stop-Loss Hit" <=> (~BtProfitTarget /\ BtStopLoss)
              /\ reason = "End of Day Exit"
                    <=> (~BtProfitTarget /\ ~BtStopLoss /\ BtEndOfDay)
    /\ (BtAccepted /\ ~BtExited)
       => (~BtProfitTarget /\ ~BtStopLoss /\ ~BtEndOfDay)
    /\ (BtExited /\ bt_position_book = ScenarioBook)
       => LET reason == Last(bt_trade_log).details.exit_reason
          IN  /\ bt_pnl = 50 => reason = "Profit Target Hit"
              /\ bt_pnl = -95 => reason = "Stop-Loss Hit"
              /\ bt_pnl = 10 => (reason = "End of Day Exit" /\ bt_clock >= 910)
    /\ (BtAccepted /\ ~BtExited /\ bt_position_book = ScenarioBook)
       => (bt_pnl \notin {50, -95} /\ (bt_pnl = 10 => bt_clock < 910))

\* The worked example has exited on its profit target with a P&L of 50.
C10_Witness ==
    /\ BtExited
    /\ bt_position_book = ScenarioBook
    /\ Last(bt_trade_log).details = [exit_reason |-> "Profit Target Hit", pnl |-> 50]

\* The sum of the four leg contributions: entry minus current for the two
\* short legs, current minus entry for the two long legs.
LegContributions(sc_entry, sc_now, lc_entry, lc_now, sp_entry, sp_now, lp_entry, lp_now) ==
    (sc_entry - sc_now) + (lc_now - lc_entry) + (sp_entry - sp_now) + (lp_now - lp_entry)

\* The live P&L of the held book against the cycle's quote.
LivePnl ==
    LOT_SIZE * LegContributions(
        bot_state.position_book.SELL_CE, live_data.sell_ce_ltp,
        bot_state.position_book.BUY_CE, live_data.buy_ce_ltp,
        bot_state.position_book.SELL_PE, live_data.sell_pe_ltp,
        bot_state.position_book.BUY_PE, live_data.buy_pe_ltp)

\* The backtest P&L of the held book against the row last consumed.
BtRowPnl ==
    LegContributions(
        bt_position_book.sell_ce, bt_row.sell_ce_ltp,
        bt_position_book.buy_ce, bt_row.buy_ce_ltp,
        bt_position_book.sell_pe, bt_row.sell_pe_ltp,
        bt_position_book.buy_pe, bt_row.buy_pe_ltp)

\* The live engine is about to evaluate a quote against a four-leg book.
Monitoring ==
    /\ pc = "monitor"
    /\ bot_state.trade_active
    /\ DOMAIN bot_state.position_book = BookKeys

\* C11: the mark-to-market P&L is (short-call entry - current) + (long-call
\* current - entry) + (short-put entry - current) + (long-put current -
\* entry), times LOT_SIZE in the live engine and unscaled in the backtest;
\* the exit thresholds are compared against this number and the exit event
\* (notification and EXIT log row) reports this same number.
C11_MarkToMarket ==
    /\ [][ Monitoring
           => /\ bot_state'.pnl_per_lot = LivePnl
              /\ (pc' = "exit_notify")
                    <=> \/ LivePnl >= env.PROFIT_TARGET_PER_LOT
                        \/ LiveStopLoss
                        \/ LiveEndOfDay
              /\ (pc' = "exit_notify")
                    => /\ pnl_per_lot' = LivePnl
                       /\ (exit_reason' = "PROFIT_TARGET")
                             <=> LivePnl >= env.PROFIT_TARGET_PER_LOT ]_vars
    /\ [](pc \in {"exit_notify", "exit_log", "exit_remove"}
            => pnl_per_lot = LivePnl)
    /\ [](pc \in {"exit_log", "exit_remove"}
            => Last(sent) = Message("TRADE EXITED", exit_reason, LivePnl))
    /\ [](pc = "exit_remove"
            => /\ Last(trade_log).action = "EXIT"
               /\ Last(trade_log).pnl = LivePnl)
    /\ [](BtAccepted
            => /\ bt_pnl = BtRowPnl
               /\ BtExited => Last(bt_trade_log).details.pnl = BtRowPnl
               /\ BtExited <=> \/ 100 * BtRowPnl >= bt_profit_target
                               \/ 100 * BtRowPnl <= -bt_stop_loss
                               \/ BtEndOfDay)

\* The live engine has announced an exit with a P&L of one price unit on
\* one leg, LOT_SIZE in all, and is about to log it.
C11_Witness ==
    /\ pc = "exit_log"
    /\ Last(sent).kind = "TRADE EXITED"
    /\ Last(sent).pnl = LOT_SIZE
    /\ bot_state.position_book.SELL_CE = 1
    /\ live_data.sell_ce_ltp = 0

\* The thread is between two cycles, or the loop has stopped and the
\* thread has finished.
CycleBoundary == pc \in {"loop_top", "finished"}

\* The engine is Active: trade_active with a four-leg position book.
Active ==
    bot_state.trade_active /\ DOMAIN bot_state.position_book = BookKeys

\* C12: in the live driver, at every cycle boundary and after the loop has
\* stopped, the state file exists if and only if the engine is Active
\* (trade_active with a four-leg position book).
C12_FileIffActive ==
    CycleBoundary => (state_file.exists <=> Active)

\* Positions in a sequence of records whose field holds one of the values.
Where(seq, field, values) == {i \in 1..Len(seq) : seq[i][field] \in values}

\* In a sequence of events there is at most one entry, and no entry comes
\* after a closing event.
OneEntryNoneAfterClose(seq, field, entry, closing) ==
    /\ Cardinality(Where(seq, field, {entry})) <= 1
    /\ \A i \in Where(seq, field, closing), j \in Where(seq, field, {entry}) : j < i

\* The statements of the live loop that consume a quote or enter.
ConsumingPcs == {"loop_top", "entry", "monitor"} \cup EnteringPcs

\* C13: within one session, after an Exited or Rejected event no further
\* Entered event occurs: the live driver and the backtest stop consuming
\* quotes once the trade has closed or been rejected, and there is at most
\* one entry per session.
C13_NoReentry ==
    /\ [](OneEntryNoneAfterClose(sent, "kind", "TRADE ENTERED", {"TRADE EXITED"}))
    /\ [](OneEntryNoneAfterClose(trade_log, "action", "ENTRY", {"EXIT"}))
    /\ [](OneEntryNoneAfterClose(bt_trade_log, "event", "ENTRY",
                                 {"EXIT", "TRADE REJECTED"}))
    /\ []((Where(sent, "kind", {"TRADE EXITED"}) # {}) => pc \notin ConsumingPcs)
    /\ [][ (Where(sent, "kind", {"TRADE EXITED"}) # {})
           => (live_data' = live_data /\ clock' = clock) ]_vars
    /\ []((Where(bt_trade_log, "event", {"EXIT", "TRADE REJECTED"}) # {})
            => bt_pc \in {"after_loop", "returned"})
    /\ [][ (Where(bt_trade_log, "event", {"EXIT", "TRADE REJECTED"}) # {})
           => (bt_row' = bt_row /\ bt_clock' = bt_clock
               /\ bt_trade_active' = bt_trade_active
               /\ bt_position_book' = bt_position_book) ]_vars

\* The live session is over after one entry and one exit on a later quote.
C13_Witness ==
    /\ pc = "finished"
    /\ Len(trade_log) = 2
    /\ trade_log[1].action = "ENTRY"
    /\ trade_log[2].action = "EXIT"
    /\ trade_log[2].pnl # 0
    /\ ~bot_state.trade_active

\* C14: a status read running beside the polling thread never observes a
\* half-updated session state: the response never shows trade_active =
\* true with a position book lacking a leg, nor trade_active = false with
\* a non-empty position book.
C14_NoTornRead ==
    status_pc = "responded"
    => /\ status_response.trade_active
             => DOMAIN status_response.position_book = BookKeys
       /\ ~status_response.trade_active
             => status_response.position_book = EmptyBook

\* An exit notification has been sent in this session.
ExitEventSent == Where(sent, "kind", {"TRADE EXITED"}) # {}

\* C15: within market hours an unusable Quote never stops the live polling
\* loop: after any number of cycles with missing data the driver sleeps and
\* polls again, and the session ends only through an exit event or the
\* clock leaving market hours. So whenever the thread is past the loop, an
\* exit has been announced or the last reading was outside market hours.
C15_EndsOnlyByExitOrClose ==
    pc \in AfterLoopPcs
    => (ExitEventSent \/ ~InMarketHours(current_time))

\* C16: any error raised while fetching a Quote is caught inside the feed
\* adapter and surfaced as a Quote with missing fields, so the driver skips
\* that cycle without changing trade state and without ending the session:
\* a cycle inside market hours either is skipped, with the trade state and
\* the events as they were, or goes on to evaluate a usable Quote.
C16_FetchErrorsSurfaced ==
    [][ (pc = "loop_top" /\ InMarketHours(clock'))
        => \/ pc' = "entry" /\ ~HasMissingField(live_data')
           \/ /\ pc' = "loop_top"
              /\ bot_state'.trade_active = bot_state.trade_active
              /\ bot_state'.position_book = bot_state.position_book
              /\ state_file' = state_file /\ sent' = sent ]_vars

\* The driver has ended: the thread finished, or was stopped with the
\* process.
DriverEnded == pc \in {"finished", "killed"}

\* C17: an unexpected exception raised during a polling cycle is caught at
\* the driver boundary: the loop stops, a notification is attempted and the
\* accumulated trade log is flushed to the log file before the driver
\* finishes; the same flush happens on a manual interrupt and on normal
\* termination. So whenever the driver has ended, every row of the trade
\* log is in the log file, and an exception is followed by the CRITICAL
\* notification.
C17_LogFlushedAtEnd ==
    /\ (DriverEnded /\ trade_log # <<>>) => log_file = ToCsv(trade_log)
    /\ (pc = "finished" /\ bot_state.status_message = "CRITICAL ERROR")
       => Last(sent).kind = "CRITICAL"

\* One sequence is a prefix of another.
IsPrefix(a, b) == Len(a) <= Len(b) /\ SubSeq(b, 1, Len(a)) = a

\* C18: the trade log is append-only and ordered: a recorded row is never
\* removed, changed or reordered, in the in-memory log of a process and in
\* the flushed log file, so the log file after any later flush, including
\* the flush of a session started after a process restart, has the rows
\* recorded earlier as a prefix.
C18_LogAppendOnly ==
    [][ /\ restarts' = restarts => IsPrefix(trade_log, trade_log')
        /\ IsPrefix(log_file.rows, log_file'.rows) ]_vars

\* The monitoring block is about to run in the cycle of the entry: the
\* engine is active and the status is still the one the idle branch set
\* on this Quote (the monitoring block replaces it).
EnteredThisCycle ==
    /\ pc = "monitor"
    /\ bot_state.trade_active
    /\ bot_state.status_message = "Waiting for entry."

\* C19: each usable Quote produces exactly one outcome among Entered,
\* Holding and Exited; in particular the cycle in which the engine enters
\* never also exits the position, for every configuration of profit
\* target, entry range and stop-loss band.
C19_EntryCycleNeverExits ==
    [][ EnteredThisCycle => (pc' = "loop_top" /\ bot_state'.trade_active) ]_vars

\* An entry has been announced and no exit has been announced after it.
EntryAnnounced ==
    \E i \in 1..Len(sent) :
        /\ sent[i].kind = "TRADE ENTERED"
        /\ \A j \in (i + 1)..Len(sent) : sent[j].kind # "TRADE EXITED"

\* C20: in the live engine the state file is written before the entry is
\* announced. At the step that sends the entry notification the file on
\* disk already holds the active flag and the book taken from the Quote;
\* from then until an exit is announced the file is left as it is, also by
\* an interruption and a restart of the process; and whenever the driver is
\* in its polling loop in that span, before or after the restart, the
\* engine is active with the book of the file. The ENTRY log row follows
\* the notification, so the same holds from the log row on.
C20_EntrySurvivesRestart ==
    [][ LET before == EntryAnnounced
            after == EntryAnnounced'
        IN  /\ (sent' # sent /\ ~before /\ after)
               => /\ WellFormed(state_file)
                  /\ state_file.obj.position_book = BookOf(live_data)
                  /\ state_file' = state_file
            /\ (state_file' # state_file) => ~(before /\ after)
            /\ (pc' \in HoldingPcs /\ after)
               => /\ bot_state'.trade_active
                  /\ bot_state'.position_book = state_file'.obj.position_book
            /\ (Len(trade_log') > Len(trade_log) /\ before)
               => WellFormed(state_file) ]_vars

\* The process was interrupted after the entry was announced and before
\* its log row reached the log file; restarted, the driver is back at the
\* top of its loop, active with the book of the entry.
C20_Witness ==
    /\ restarts > 0
    /\ pc = "loop_top"
    /\ EntryAnnounced
    /\ Last(sent).kind = "RESTARTED"
    /\ log_file.rows = <<>>
    /\ bot_state.trade_active
    /\ WellFormed(state_file)
    /\ bot_state.position_book = state_file.obj.position_book
    /\ bot_state.position_book.SELL_CE = 1
    /\ bot_state.position_book.SELL_PE = 0

\* The exit of an announced entry has been announced and no entry has been
\* announced after it.
ExitAnnounced ==
    \E i \in 1..Len(sent) :
        /\ sent[i].kind = "TRADE EXITED"
        /\ \E h \in 1..(i - 1) : sent[h].kind = "TRADE ENTERED"
        /\ \A j \in (i + 1)..Len(sent) : sent[j].kind # "TRADE ENTERED"

\* Between any two exit notifications that follow an entry notification
\* there is another entry notification.
NoSecondExit ==
    \A h, i, j \in 1..Len(sent) :
        (h < i /\ i < j /\ sent[h].kind = "TRADE ENTERED"
               /\ sent[i].kind = "TRADE EXITED" /\ sent[j].kind = "TRADE EXITED")
        => \E k \in (i + 1)..(j - 1) : sent[k].kind = "TRADE ENTERED"

\* C21: across an interruption at any statement followed by a restart, a
\* trade whose exit has been announced is never resumed as active (at the
\* top of the polling loop, with an exit announced and no entry since, the
\* engine is idle), and the exit of one trade is announced at most once.
C21_ExitAtMostOnce ==
    /\ (pc = "loop_top" /\ ExitAnnounced) => ~bot_state.trade_active
    /\ NoSecondExit

\* The statements of a cycle that evaluates a Quote: the entry logic, the
\* entry sequence, the monitoring block and the exit sequence.
QuotePcs == {"entry", "monitor", "exit_notify", "exit_log", "exit_remove",
             "exit_clear_active", "exit_clear_book", "exit_clear_pnl"}
            \cup EnteringPcs

\* C22: in the live driver an exit with reason END_OF_DAY is taken only in
\* a cycle whose clock reading equals MARKET_CLOSE_TIME (the local reason
\* is set only at that reading, and every EXIT row with that reason carries
\* the time read by the fetch of that cycle); a Quote is
\* evaluated only at readings up to MARKET_CLOSE_TIME; and a cycle whose
\* reading is after MARKET_CLOSE_TIME evaluates no Quote: with a position
\* open it goes to the Market Closed exit, otherwise the loop stops.
C22_EndOfDayOnlyAtClose ==
    /\ [](exit_reason = "END_OF_DAY" => current_time = MARKET_CLOSE_TIME)
    /\ [](\A i \in 1..Len(trade_log) :
            trade_log[i].commentary = "END_OF_DAY"
            => trade_log[i].timestamp \in FetchReadings(MARKET_CLOSE_TIME))
    /\ [](pc \in QuotePcs => current_time <= MARKET_CLOSE_TIME)
    /\ [][ (pc = "loop_top" /\ pc' # "loop_top" /\ clock' > MARKET_CLOSE_TIME)
           => /\ live_data' = live_data
              /\ current_time' = clock'
              /\ pc' = IF bot_state.trade_active THEN "mc_notify" ELSE "finally" ]_vars

\* An exit decided on the Quote of the cycle that read MARKET_CLOSE_TIME,
\* with the profit target not reached and the spot inside the stop-loss
\* band: END_OF_DAY has been announced.
C22_Witness ==
    /\ pc = "exit_log"
    /\ current_time = MARKET_CLOSE_TIME
    /\ exit_reason = "END_OF_DAY"
    /\ ~LiveProfitTarget /\ ~LiveStopLoss
    /\ Last(sent) = Message("TRADE EXITED", "END_OF_DAY", pnl_per_lot)

(***************************************************************************)
(* The live driver under fairness. The thread keeps running (every call of *)
(* a cycle returns, and time.sleep returns), and the clock advances: a     *)
(* loop that comes back to its top again and again eventually reads a time *)
(* outside market hours.                                                   *)
(***************************************************************************)
\* main.py started in the environment of the behaviours with restarts, with
\* no state file, a malformed one or a well-formed one on disk.
InitSession ==
    /\ program = "main"
    /\ BtInit
    /\ LiveInit
    /\ env \in RestartEnvironments
    /\ state_file \in StatusStateFiles

NextSession ==
    \/ StartBot
    \/ StartBotFails
    \/ StartBotFailsStatus
    \/ CheckStateFile
    \/ LoadStateFile
    \/ RestoreActive
    \/ RestoreBook
    \/ ValidateState
    \/ ResetActive
    \/ ResetBook
    \/ PollMarketClosed
    \/ PollUnusable(RestartQuotes)
    \/ PollUsable(RestartQuotes)
    \/ PollFetchError(RestartQuotes)
    \/ EntryLogic
    \/ EnterActive
    \/ EnterBook
    \/ EnterOpenFile
    \/ EnterDumpFile
    \/ EnterNotify
    \/ EnterLog
    \/ Monitor
    \/ ExitNotify
    \/ ExitLog
    \/ ExitRemoveFile
    \/ ExitClearActive
    \/ ExitClearBook
    \/ ExitClearPnl
    \/ McNotify
    \/ McRemoveFile
    \/ McClearActive
    \/ McClearBook
    \/ ExceptHandler
    \/ ExceptNotify
    \/ Finally
    \/ FinallyWrite

SpecSession ==
    /\ InitSession
    /\ [][NextSession]_vars
    /\ WF_vars(NextSession)
    /\ SF_vars(PollMarketClosed)

\* run_trading_bot has ended: through its finally block, through the
\* return after a failed NSELive(), or through an exception outside its
\* try block.
Stopped == pc \in {"finished", "returned", "died"}

\* The statements that follow an exit notification.
AfterExitPcs == {"exit_log", "exit_remove", "exit_clear_active", "exit_clear_book",
                 "exit_clear_pnl", "mc_remove", "mc_clear_active", "mc_clear_book"}
                \cup AfterLoopPcs

\* C23: with the thread running and the clock advancing, the live polling
\* loop eventually stops. A cycle whose clock reading is past
\* MARKET_CLOSE_TIME does not come back to the top of the loop; once an
\* exit has been announced the thread is in the rest of the exit sequence
\* or past the loop; and past the loop no cycle is started again: the
\* clock is not read, nothing is announced, the engine state stays.
C23_SessionStops ==
    /\ <>Stopped
    /\ [](clock > MARKET_CLOSE_TIME => pc \in MarketClosedPcs \cup AfterLoopPcs)
    /\ [](ExitEventSent => pc \in AfterExitPcs)
    /\ [][ (pc \in AfterLoopPcs)
           => /\ pc' \in AfterLoopPcs
              /\ clock' = clock /\ sent' = sent /\ bot_state' = bot_state ]_vars

\* The session ended by the clock alone: the thread has finished after a
\* reading past MARKET_CLOSE_TIME, with no trade entered and nothing
\* announced.
C23_Witness ==
    /\ pc = "finished"
    /\ clock > MARKET_CLOSE_TIME
    /\ bot_state.status_message = "Market is closed."
    /\ ~bot_state.trade_active
    /\ sent = <<DeploymentMessage>> /\ trade_log = <<>>
    /\ state_file = NoFile

\* C24: whenever the live engine is not active, at the top of a cycle and
\* after the thread has finished, by whichever exit path, bot_state holds
\* an empty position book and a pnl_per_lot of 0: no P&L of a closed trade
\* is left in the state the status page reads.
C24_IdleStateClean ==
    (CycleBoundary /\ ~bot_state.trade_active)
    => /\ bot_state.position_book = EmptyBook
       /\ bot_state.pnl_per_lot = 0

\* The events of the backtest log, in order.
BtEvents == [i \in 1..Len(bt_trade_log) |-> bt_trade_log[i].event]

\* The backtest logged an ENTRY row.
BtEntered == \E i \in 1..Len(bt_trade_log) : bt_trade_log[i].event = "ENTRY"

\* C25: in the backtest on a feed with all prices present, a trade that is
\* entered (net credit > 0 on the first row at or after 09:45) logs ENTRY
\* and TARGETS on its entry row and is exited exactly once: as soon as a row
\* at or after 15:10 has been consumed the log reads ENTRY, TARGETS, EXIT,
\* the EXIT row carries the time of the row that closed the trade and the
\* loop has stopped. The entry row itself never exits with ProfitTarget or
\* StopLoss (P&L is 0 there and both thresholds are positive): an exit on
\* the entry row is an end-of-day exit of an entry at or after 15:10, which
\* a per-minute feed from 09:15 does not have.
C25_BacktestTradeLifecycle ==
    BtEntered
    => /\ bt_net_credit > 0 /\ bt_profit_target > 0 /\ bt_stop_loss > 0
       /\ BtEvents \in {<<"ENTRY", "TARGETS">>, <<"ENTRY", "TARGETS", "EXIT">>}
       /\ bt_trade_log[1].timestamp >= entry_time
       /\ bt_trade_log[2].timestamp = bt_trade_log[1].timestamp
       /\ bt_clock >= EOD_CUTOFF => Len(bt_trade_log) = 3
       /\ Len(bt_trade_log) = 3
          => /\ bt_pc \in {"after_loop", "returned"}
             /\ bt_trade_log[3].timestamp = bt_clock
             /\ bt_trade_log[3].timestamp = bt_trade_log[1].timestamp
                => /\ bt_trade_log[3].details.exit_reason = "End of Day Exit"
                   /\ bt_trade_log[1].timestamp >= EOD_CUTOFF
             /\ bt_trade_log[3].details.exit_reason = "End of Day Exit"
                => bt_trade_log[3].timestamp >= EOD_CUTOFF

\* A backtest that entered on the 09:45 row and closed the position on the
\* 15:10 row at the end of day: the returned log is ENTRY, TARGETS, EXIT.
C25_Witness ==
    /\ bt_pc = "returned"
    /\ BtEvents = <<"ENTRY", "TARGETS", "EXIT">>
    /\ bt_trade_log[1].timestamp = entry_time
    /\ bt_trade_log[3].timestamp = EOD_CUTOFF
    /\ bt_trade_log[3].details.exit_reason = "End of Day Exit"
    /\ bt_net_credit > 0

====
